---- MODULE Spec2Model ----
(***************************************************************************)
(* Model of src/src/app/page.tsx: the waitlist form of PreLaunchClient     *)
(* (handleWaitlistSubmit, addToWaitlist) and the CountdownTimer component. *)
(***************************************************************************)
EXTENDS FiniteSets, Integers, Sequences, TLC

VARIABLES name, email, restaurantName, isSubmitting, subscribed,
          requests, posts, submits, toasts, escaped, last,
          now, timeLeft, timers, cleanup, mounted, advances, observed,
          intersecting, inView, reveals, conceals, entered, scrolls

formVars == <<name, email, restaurantName, isSubmitting, subscribed,
              requests, posts, submits, toasts, escaped, last>>
clockVars == <<now, timeLeft, timers, cleanup, mounted, advances, observed>>
viewVars == <<intersecting, inView, reveals, conceals, entered, scrolls>>
vars == <<name, email, restaurantName, isSubmitting, subscribed,
          requests, posts, submits, toasts, escaped, last,
          now, timeLeft, timers, cleanup, mounted, advances, observed,
          intersecting, inView, reveals, conceals, entered, scrolls>>

(***************************************************************************)
(* Bounds                                                                  *)
(***************************************************************************)
\* submit events handled in one behaviour
MaxSubmits == 2

(***************************************************************************)
(* Input domains                                                           *)
(***************************************************************************)
\* values the user can type into the three inputs (e.target.value)
Names == {"", "Jane Doe"}
Emails == {"", "jane", "jane@example.com"}
RestaurantNames == {"", "Snack Shack"}
\* message texts a server may put in an error body
ServerMessages == {"", "Email already registered", "Waitlist is closed"}

\* <input type="email">: the values the browser accepts as an e-mail address
ValidEmails == {"jane@example.com"}

\* error.response.data as axios hands it over: a non-JSON or empty body is a
\* string, a JSON body is the parsed value (null or an object); message is
\* <<>> when the object has no message field
ErrorBodies ==
    {[shape |-> "text", message |-> <<>>],
     [shape |-> "null", message |-> <<>>],
     [shape |-> "object", message |-> <<>>]}
    \cup {[shape |-> "object", message |-> <<m>>] : m \in ServerMessages}

NoBody == [shape |-> "text", message |-> <<>>]

\* outcomes of api.post: a 2xx response, an error with a response, an error
\* without one
Responses ==
    {[kind |-> "ok", data |-> NoBody], [kind |-> "network", data |-> NoBody]}
    \cup {[kind |-> "http", data |-> d] : d \in ErrorBodies}

(***************************************************************************)
(* addToWaitlist                                                           *)
(***************************************************************************)
FallbackMessage == "Adding to waitlist failed"
NetworkMessage == "Adding to waitlist failed. Please check your network or try again later."
\* message of the TypeError raised by reading a property of null
TypeErrorMessage == "Cannot read properties of null (reading 'message')"

\* the request body built from the handler's arguments
WaitlistBodySwapped(e, n, r) == [email |-> n, name |-> e, restaurantName |-> r]
WaitlistBody(e, n, r) == [email |-> e, name |-> n, restaurantName |-> r]

\* error.response.data.message || "Adding to waitlist failed"
ErrorMessageAlwaysFallback(data) == FallbackMessage
ErrorMessage(data) ==
    IF data.message # <<>> /\ data.message[1] # ""
    THEN data.message[1] ELSE FallbackMessage

\* what the promise returned by addToWaitlist settles to
addToWaitlist(res) ==
    IF res.kind = "ok" THEN [threw |-> FALSE, isError |-> FALSE, message |-> ""]
    ELSE IF res.kind = "http"
    THEN IF res.data.shape = "null"
         THEN [threw |-> TRUE, isError |-> TRUE, message |-> TypeErrorMessage]
         ELSE [threw |-> TRUE, isError |-> TRUE, message |-> ErrorMessage(res.data)]
    ELSE [threw |-> TRUE, isError |-> TRUE, message |-> NetworkMessage]

(***************************************************************************)
(* handleWaitlistSubmit                                                    *)
(***************************************************************************)
SuccessTitle == "You're on the list!"
SuccessDescription == "Thank you for joining our waitlist. We'll notify you when we launch."
ErrorTitle == "Failed to join waitlist"
NonErrorDescription == "Please try again later."

Fields == [name |-> name, email |-> email, restaurantName |-> restaurantName,
           subscribed |-> subscribed]

\* the form is rendered, its submit button is enabled and the required
\* inputs pass the browser's validation
CanSubmitAlways == ~subscribed /\ name # "" /\ email \in ValidEmails
CanSubmitNoRequired == ~subscribed /\ ~isSubmitting
CanSubmit == ~subscribed /\ ~isSubmitting /\ name # "" /\ email \in ValidEmails

\* setIsSubmitting(true) at the start of the handler
SubmittingOnStartUnset == FALSE
SubmittingOnStart == TRUE

\* the finally block
SubmittingOnFinishKept(threw) == threw
SubmittingOnFinish(threw) == FALSE

\* the try block after the await: the four setters
AfterSuccessKeepForm(f) == [f EXCEPT !.email = "", !.name = "", !.restaurantName = ""]
AfterSuccess(f) == [name |-> "", email |-> "", restaurantName |-> "", subscribed |-> TRUE]

\* the catch block writes no field
AfterFailureCleared(f) == [f EXCEPT !.email = "", !.name = "", !.restaurantName = ""]
AfterFailureSubscribed(f) == [f EXCEPT !.subscribed = TRUE]
AfterFailure(f) == f

\* the description of the error toast
ErrorDescription(err) == IF err.isError THEN err.message ELSE NonErrorDescription

\* catch (error) { ... } takes every rejection and rethrows none
Escapes(err) == FALSE

\* POSTs issued again after a rejection: neither catch block issues one
ReissuedOnFailure(r) == <<r>>
Reissued(r) == <<>>

\* the toasts one settled call emits
ToastsForSilentFailure(id, out) ==
    IF out.threw THEN <<>>
    ELSE <<[kind |-> "success", title |-> SuccessTitle,
            description |-> SuccessDescription, req |-> id]>>
ToastsFor(id, out) ==
    IF out.threw
    THEN <<[kind |-> "error", title |-> ErrorTitle,
            description |-> ErrorDescription(out), req |-> id]>>
    ELSE <<[kind |-> "success", title |-> SuccessTitle,
            description |-> SuccessDescription, req |-> id]>>

NoEvent == [ev |-> "init", req |-> 0, res |-> [kind |-> "ok", data |-> NoBody],
            before |-> [name |-> "", email |-> "", restaurantName |-> "", subscribed |-> FALSE],
            atSubmit |-> [name |-> "", email |-> "", restaurantName |-> "", subscribed |-> FALSE]]

\* onChange of the three inputs
setName(v) ==
    /\ ~subscribed
    /\ name' = v
    /\ last' = [NoEvent EXCEPT !.ev = "type", !.before = Fields]
    /\ UNCHANGED <<email, restaurantName, isSubmitting, subscribed, requests,
                   posts, submits, toasts, escaped>>
    /\ UNCHANGED clockVars
    /\ UNCHANGED viewVars

setEmail(v) ==
    /\ ~subscribed
    /\ email' = v
    /\ last' = [NoEvent EXCEPT !.ev = "type", !.before = Fields]
    /\ UNCHANGED <<name, restaurantName, isSubmitting, subscribed, requests,
                   posts, submits, toasts, escaped>>
    /\ UNCHANGED clockVars
    /\ UNCHANGED viewVars

setRestaurantName(v) ==
    /\ ~subscribed
    /\ restaurantName' = v
    /\ last' = [NoEvent EXCEPT !.ev = "type", !.before = Fields]
    /\ UNCHANGED <<name, email, isSubmitting, subscribed, requests,
                   posts, submits, toasts, escaped>>
    /\ UNCHANGED clockVars
    /\ UNCHANGED viewVars

\* a submit event: the handler up to its await, the POST issued
handleWaitlistSubmit ==
    /\ CanSubmit
    /\ submits < MaxSubmits
    /\ submits' = submits + 1
    /\ isSubmitting' = SubmittingOnStart
    /\ LET r == [id |-> submits + 1,
                 body |-> WaitlistBody(email, name, restaurantName),
                 atSubmit |-> Fields]
       IN /\ requests' = requests \cup {r}
          /\ posts' = Append(posts, r)
          /\ last' = [NoEvent EXCEPT !.ev = "submit", !.req = r.id,
                                     !.before = Fields, !.atSubmit = Fields]
    /\ UNCHANGED <<name, email, restaurantName, subscribed, toasts, escaped>>
    /\ UNCHANGED clockVars
    /\ UNCHANGED viewVars

\* the request settles and the handler runs to its end
Settle(r, res) ==
    LET out == addToWaitlist(res)
        f == IF out.threw THEN AfterFailure(Fields) ELSE AfterSuccess(Fields)
    IN /\ requests' = requests \ {r}
       /\ name' = f.name
       /\ email' = f.email
       /\ restaurantName' = f.restaurantName
       /\ subscribed' = f.subscribed
       /\ toasts' = toasts \o ToastsFor(r.id, out)
       /\ isSubmitting' = SubmittingOnFinish(out.threw)
       /\ last' = [ev |-> IF out.threw THEN "failure" ELSE "success",
                   req |-> r.id, res |-> res, before |-> Fields,
                   atSubmit |-> r.atSubmit]
       /\ posts' = IF out.threw THEN posts \o Reissued(r) ELSE posts
       /\ escaped' = (escaped \/ (out.threw /\ Escapes(out)))
       /\ UNCHANGED submits
       /\ UNCHANGED clockVars
       /\ UNCHANGED viewVars
    /\ UNCHANGED viewVars

(***************************************************************************)
(* CountdownTimer                                                          *)
(***************************************************************************)
\* the launch instant, in ms after the instant the model's clock calls 0
LaunchOffset == 183845006
\* clock advances in one behaviour
MaxAdvances == 3
\* interval timers alive at once that the model can tell apart
MaxTimers == 2

launchDate == LaunchOffset

MsPerSecond == 1000
MsPerMinute == 1000 * 60
MsPerHour == 1000 * 60 * 60
MsPerDay == 1000 * 60 * 60 * 24

\* instants at which the page is opened, as distances to the launch
StartDeltas == {launchDate, MsPerDay + MsPerHour + MsPerMinute + MsPerSecond,
                MsPerDay, MsPerHour, MsPerMinute, MsPerSecond, 1}
\* time between two events
Steps == {1, 999, 1000, 59000, 3540000, 82800000}

\* Math.floor((difference / k) % m) for difference >= 0: the remainder of the
\* real quotient difference / k by m is (difference mod k*m) / k
FloorOfModRounded(difference, k, m) == ((difference % (k * m)) + (k \div 2)) \div k
FloorOfMod(difference, k, m) == (difference % (k * m)) \div k

ZeroTimeLeft == [days |-> 0, hours |-> 0, minutes |-> 0, seconds |-> 0]

\* the state calculateTimeLeft leaves, called at instant n with state tl
calculateTimeLeftNoWrap(tl, n) ==
    LET difference == launchDate - n
    IN IF difference > 0
       THEN [days |-> difference \div MsPerDay,
             hours |-> difference \div MsPerHour,
             minutes |-> FloorOfMod(difference, MsPerMinute, 60),
             seconds |-> FloorOfMod(difference, MsPerSecond, 60)]
       ELSE tl
calculateTimeLeftUnguarded(tl, n) ==
    LET difference == launchDate - n
    IN [days |-> difference \div MsPerDay,
        hours |-> FloorOfMod(difference, MsPerHour, 24),
        minutes |-> FloorOfMod(difference, MsPerMinute, 60),
        seconds |-> FloorOfMod(difference, MsPerSecond, 60)]
calculateTimeLeftClamped(tl, n) ==
    LET difference == launchDate - n
    IN IF difference > 0
       THEN [days |-> difference \div MsPerDay,
             hours |-> FloorOfMod(difference, MsPerHour, 24),
             minutes |-> FloorOfMod(difference, MsPerMinute, 60),
             seconds |-> FloorOfMod(difference, MsPerSecond, 60)]
       ELSE ZeroTimeLeft
calculateTimeLeft(tl, n) ==
    LET difference == launchDate - n
    IN IF difference > 0
       THEN [days |-> difference \div MsPerDay,
             hours |-> FloorOfMod(difference, MsPerHour, 24),
             minutes |-> FloorOfMod(difference, MsPerMinute, 60),
             seconds |-> FloorOfMod(difference, MsPerSecond, 60)]
       ELSE tl

\* what the latest call of calculateTimeLeft saw
NotObserved ==
    [called |-> FALSE, difference |-> 0, before |-> ZeroTimeLeft, target |-> launchDate]
Observation(n) ==
    [called |-> TRUE, difference |-> launchDate - n, before |-> timeLeft,
     target |-> launchDate]

\* setInterval hands out an id that no timer alive at the call has
FreshTimer(live) == CHOOSE t \in 1..MaxTimers : t \notin live

\* the effect body: calculateTimeLeft(), setInterval(calculateTimeLeft, 1000)
RunEffect(live) ==
    /\ Cardinality(timers) < MaxTimers
    /\ timeLeft' = calculateTimeLeft(timeLeft, now)
    /\ observed' = Observation(now)
    /\ cleanup' = FreshTimer(timers)
    /\ timers' = live \cup {FreshTimer(timers)}

\* the effect's cleanup: clearInterval(timer)
AfterCleanupWrongTimer == timers \ {cleanup + 1}
AfterCleanupKeeps == timers
AfterCleanup == timers \ {cleanup}

\* the component mounts: useState's initial value, then the effect
Mount ==
    /\ ~mounted
    /\ Cardinality(timers) < MaxTimers
    /\ mounted' = TRUE
    /\ timeLeft' = calculateTimeLeft(ZeroTimeLeft, now)
    /\ observed' = [Observation(now) EXCEPT !.before = ZeroTimeLeft]
    /\ cleanup' = FreshTimer(timers)
    /\ timers' = timers \cup {FreshTimer(timers)}
    /\ UNCHANGED <<now, advances>>
    /\ UNCHANGED formVars
    /\ UNCHANGED viewVars

\* the parent renders again: launchDate is a new Date, the effect runs again
Rerender ==
    /\ mounted
    /\ RunEffect(AfterCleanup)
    /\ UNCHANGED <<now, mounted, advances>>
    /\ UNCHANGED formVars
    /\ UNCHANGED viewVars

\* an interval timer fires
Tick(t) ==
    /\ t \in timers
    /\ timeLeft' = calculateTimeLeft(timeLeft, now)
    /\ observed' = Observation(now)
    /\ UNCHANGED <<now, timers, cleanup, mounted, advances>>
    /\ UNCHANGED formVars
    /\ UNCHANGED viewVars

\* the component is torn down
Unmount ==
    /\ mounted
    /\ mounted' = FALSE
    /\ timers' = AfterCleanup
    /\ cleanup' = 0
    /\ UNCHANGED <<now, timeLeft, advances, observed>>
    /\ UNCHANGED formVars
    /\ UNCHANGED viewVars

\* wall-clock time passes
Advance(d) ==
    /\ advances < MaxAdvances
    /\ advances' = advances + 1
    /\ now' = now + d
    /\ UNCHANGED <<timeLeft, timers, cleanup, mounted, observed>>
    /\ UNCHANGED formVars
    /\ UNCHANGED viewVars

(***************************************************************************)
(* AnimatedSection, FeatureCard                                            *)
(***************************************************************************)
\* enter-view and leave-view events in one behaviour
MaxScrolls == 7

\* two of the page's AnimatedSections and a FeatureCard
Sections == {"problem", "solution", "card"}

\* the triggerOnce option both components pass to useInView
TriggerOnceOff(s) == FALSE
TriggerOnce(s) == TRUE

\* inView as useInView returns it after the observer reported isIntersecting:
\* with triggerOnce the element is unobserved once it was in view
useInView(triggerOnce, wasInView, isIntersecting) ==
    IF triggerOnce /\ wasInView THEN TRUE ELSE isIntersecting

\* the animate prop: inView ? {opacity: 1, y: 0} : {opacity: 0, y: 50}
Animate(v) == IF v THEN "visible" ELSE "hidden"

\* element s crosses the visibility threshold, into view or out of it
Observe(s, isIntersecting) ==
    LET v == useInView(TriggerOnce(s), inView[s], isIntersecting)
    IN /\ scrolls < MaxScrolls
       /\ intersecting[s] # isIntersecting
       /\ scrolls' = scrolls + 1
       /\ intersecting' = [intersecting EXCEPT ![s] = isIntersecting]
       /\ entered' = [entered EXCEPT ![s] = @ + (IF isIntersecting THEN 1 ELSE 0)]
       /\ inView' = [inView EXCEPT ![s] = v]
       /\ reveals' = [reveals EXCEPT ![s] =
             @ + (IF Animate(inView[s]) = "hidden" /\ Animate(v) = "visible" THEN 1 ELSE 0)]
       /\ conceals' = [conceals EXCEPT ![s] =
             @ + (IF Animate(inView[s]) = "visible" /\ Animate(v) = "hidden" THEN 1 ELSE 0)]
       /\ UNCHANGED formVars
       /\ UNCHANGED clockVars

EnterView(s) == Observe(s, TRUE)
LeaveView(s) == Observe(s, FALSE)

ViewInit ==
    /\ intersecting = [s \in Sections |-> FALSE]
    /\ inView = [s \in Sections |-> FALSE]
    /\ reveals = [s \in Sections |-> 0]
    /\ conceals = [s \in Sections |-> 0]
    /\ entered = [s \in Sections |-> 0]
    /\ scrolls = 0

ClockIdle ==
    /\ now = 0
    /\ timeLeft = ZeroTimeLeft
    /\ timers = {}
    /\ cleanup = 0
    /\ mounted = FALSE
    /\ advances = 0
    /\ observed = NotObserved

ClockStart ==
    /\ now \in {launchDate - d : d \in StartDeltas}
    /\ timeLeft = ZeroTimeLeft
    /\ timers = {}
    /\ cleanup = 0
    /\ mounted = FALSE
    /\ advances = 0
    /\ observed = NotObserved

FormInit ==
    /\ name = ""
    /\ email = ""
    /\ restaurantName = ""
    /\ isSubmitting = FALSE
    /\ subscribed = FALSE
    /\ requests = {}
    /\ posts = <<>>
    /\ submits = 0
    /\ toasts = <<>>
    /\ escaped = FALSE
    /\ last = NoEvent

Init == FormInit /\ ClockIdle /\ ViewInit

Next ==
    \/ \E v \in Names : setName(v)
    \/ \E v \in Emails : setEmail(v)
    \/ \E v \in RestaurantNames : setRestaurantName(v)
    \/ handleWaitlistSubmit
    \/ \E r \in requests, res \in Responses : Settle(r, res)

Spec == Init /\ [][Next]_vars

CountdownNext ==
    \/ Mount
    \/ Rerender
    \/ \E t \in timers : Tick(t)
    \/ Unmount
    \/ \E d \in Steps : Advance(d)

CountdownInit == FormInit /\ ClockStart /\ ViewInit

CountdownSpec == CountdownInit /\ [][CountdownNext]_vars

SectionNext ==
    \/ \E s \in Sections : EnterView(s)
    \/ \E s \in Sections : LeaveView(s)

SectionSpec == Init /\ [][SectionNext]_vars

(***************************************************************************)
(* Properties                                                              *)
(***************************************************************************)
\* the toasts emitted for submission id
ToastsOf(id) == SelectSeq(toasts, LAMBDA t : t.req = id)

\* the non-empty message field of an error body, if it has one
HasMessage(res) ==
    /\ res.kind = "http"
    /\ res.data.shape = "object"
    /\ res.data.message # <<>>
    /\ res.data.message[1] # ""

\* C1: at most one POST is outstanding at any time, and while one is
\* outstanding the form accepts no submit event that would issue a second.
C1_AtMostOneOutstanding ==
    /\ Cardinality(requests) <= 1
    /\ requests # {} => ~CanSubmit

\* a request is outstanding while the fields are valid and a further submit
\* event is within the bound: only the outstanding request holds it back
C1_Witness ==
    /\ Cardinality(requests) = 1
    /\ name # ""
    /\ email \in ValidEmails
    /\ submits < MaxSubmits

\* C2: every submit event handled issues exactly one POST, whose body is
\* {email, name, restaurantName} with the values the three fields held when
\* the form was submitted.
C2_OnePostWithFieldValues ==
    /\ \A id \in 1..submits :
          Cardinality({i \in 1..Len(posts) : posts[i].id = id}) = 1
    /\ \A i \in 1..Len(posts) :
          /\ posts[i].id \in 1..submits
          /\ posts[i].body.email = posts[i].atSubmit.email
          /\ posts[i].body.name = posts[i].atSubmit.name
          /\ posts[i].body.restaurantName = posts[i].atSubmit.restaurantName
          /\ DOMAIN posts[i].body = {"email", "name", "restaurantName"}

\* the spec's example: Jane Doe, jane@example.com, restaurant left blank
C2_Witness ==
    \E i \in 1..Len(posts) :
        posts[i].body = [email |-> "jane@example.com", name |-> "Jane Doe",
                         restaurantName |-> ""]

\* C3: right after a request resolved successfully the three fields are
\* empty, subscribed is true and exactly one toast, a success toast, exists
\* for that submission.
C3_SuccessClearsAndSubscribes ==
    last.ev = "success" =>
        /\ name = ""
        /\ email = ""
        /\ restaurantName = ""
        /\ subscribed
        /\ Len(ToastsOf(last.req)) = 1
        /\ ToastsOf(last.req)[1].kind = "success"

\* a success that found all three fields filled
C3_Witness ==
    /\ last.ev = "success"
    /\ last.before.name # ""
    /\ last.before.email # ""
    /\ last.before.restaurantName # ""
    /\ ~last.before.subscribed

\* C4 as stated: after an error response with a non-empty message the toast
\* shows that message and the fields and subscribed equal their values at
\* the moment the form was submitted.
C4_FieldsAsAtSubmission ==
    (last.ev = "failure" /\ HasMessage(last.res)) =>
        /\ Len(ToastsOf(last.req)) = 1
        /\ ToastsOf(last.req)[1].description = last.res.data.message[1]
        /\ Fields = last.atSubmit

\* C4 as amended: after an error response with a non-empty message the toast
\* shows that message verbatim and the handler's failure path has written
\* none of name, email, restaurantName, subscribed: they equal their values
\* just before the response was handled.
C4_MessageVerbatimFieldsKept ==
    (last.ev = "failure" /\ HasMessage(last.res)) =>
        /\ Len(ToastsOf(last.req)) = 1
        /\ ToastsOf(last.req)[1].kind = "error"
        /\ ToastsOf(last.req)[1].description = last.res.data.message[1]
        /\ Fields = last.before

\* the spec's example, with a field edited while the request was outstanding
C4_Witness ==
    /\ last.ev = "failure"
    /\ HasMessage(last.res)
    /\ last.res.data.message[1] = "Email already registered"
    /\ last.before # last.atSubmit
    /\ name # ""

\* C5: after a failure without a response the toast's description is the
\* fixed connectivity message, which is no server message, and the failure
\* path has left the fields as they were.
C5_NetworkFailureGeneric ==
    (last.ev = "failure" /\ last.res.kind = "network") =>
        /\ Len(ToastsOf(last.req)) = 1
        /\ ToastsOf(last.req)[1].kind = "error"
        /\ ToastsOf(last.req)[1].description = NetworkMessage
        /\ NetworkMessage \notin ServerMessages
        /\ Fields = last.before

C5_Witness ==
    /\ last.ev = "failure"
    /\ last.res.kind = "network"
    /\ name # ""
    /\ email # ""
    /\ restaurantName # ""

\* C6: after any failure the toast's description is the server's message
\* verbatim or one of the two fixed fallback texts.
C6_OnlyServerOrFallbackText ==
    last.ev = "failure" =>
        \A i \in 1..Len(ToastsOf(last.req)) :
            \/ ToastsOf(last.req)[i].description \in {FallbackMessage, NetworkMessage}
            \/ /\ HasMessage(last.res)
               /\ ToastsOf(last.req)[i].description = last.res.data.message[1]

\* C7: no failure escapes the handler; right after a failed submission
\* isSubmitting is false and subscribed is unchanged, so the form is rendered
\* and accepts a submit event as soon as its required fields are valid.
C7_FailureLeavesFormUsable ==
    /\ ~escaped
    /\ last.ev = "failure" =>
          /\ ~isSubmitting
          /\ subscribed = last.before.subscribed
          /\ ~subscribed
          /\ (name # "" /\ email \in ValidEmails) => CanSubmit

\* a failed submission after which a further one can be started
C7_Witness ==
    /\ last.ev = "failure"
    /\ submits < MaxSubmits
    /\ CanSubmit

\* C8: isSubmitting is true in every state with a request outstanding.
C8_SubmittingWhileOutstanding == requests # {} => isSubmitting

\* a second submission is outstanding, after the first one finished
C8_Witness ==
    /\ requests # {}
    /\ submits = 2
    /\ Len(toasts) = 1

\* C9: the POSTs issued are as many as the submit events handled, and a step
\* issues a POST only if it handles a submit event.
C9_NoAutomaticRetry ==
    /\ [](Len(posts) = submits)
    /\ [][Len(posts') # Len(posts) =>
            (submits' = submits + 1 /\ Len(posts') = Len(posts) + 1)]_vars

\* two failures in a row, each after a submit event of its own
C9_Witness ==
    /\ last.ev = "failure"
    /\ Len(toasts) = 2
    /\ toasts[1].kind = "error"
    /\ Len(posts) = 2

\* C10: after a call of calculateTimeLeft that saw a positive difference,
\* seconds and minutes are in 0..59, hours in 0..23, days >= 0, and the
\* milliseconds the four fields stand for are less than 1000 ms off it.
C10_FieldsInRange ==
    (observed.called /\ observed.difference > 0) =>
        LET total == timeLeft.days * MsPerDay + timeLeft.hours * MsPerHour
                     + timeLeft.minutes * MsPerMinute
                     + timeLeft.seconds * MsPerSecond
        IN /\ timeLeft.seconds \in 0..59
           /\ timeLeft.minutes \in 0..59
           /\ timeLeft.hours \in 0..23
           /\ timeLeft.days >= 0
           /\ observed.difference - total < 1000
           /\ total - observed.difference < 1000

\* more than a day is left and no field is zero
C10_Witness ==
    /\ observed.called
    /\ observed.difference > MsPerDay
    /\ timeLeft.days >= 1
    /\ timeLeft.hours >= 1
    /\ timeLeft.minutes >= 1
    /\ timeLeft.seconds >= 1
    /\ observed.difference % 1000 # 0

\* C11: no field of the countdown is negative in any state, before the first
\* call of calculateTimeLeft and at or after the launch instant included.
C11_NeverNegative ==
    /\ timeLeft.days >= 0
    /\ timeLeft.hours >= 0
    /\ timeLeft.minutes >= 0
    /\ timeLeft.seconds >= 0

\* calculateTimeLeft was called after the launch instant had passed
C11_Witness ==
    /\ observed.called
    /\ observed.difference < 0
    /\ mounted

\* C12: after a call of calculateTimeLeft that saw a difference <= 0 all four
\* fields are 0.
C12_ClampedToZero ==
    (observed.called /\ observed.difference <= 0) => timeLeft = ZeroTimeLeft

\* C13: while the component is unmounted no interval timer is alive, and no
\* step that leaves it unmounted writes the countdown state.
C13_NoTickAfterUnmount ==
    /\ [](~mounted => timers = {})
    /\ [][(~mounted /\ ~mounted') => timeLeft' = timeLeft]_vars

\* unmounted after the effect ran again, and time has passed since
C13_Witness ==
    /\ ~mounted
    /\ observed.called
    /\ advances >= 2
    /\ timeLeft # ZeroTimeLeft
    /\ now > launchDate - observed.difference

\* C14: for a positive difference the fields the code computes, the floor of
\* the remainder of a real quotient, equal floor(d/86400000),
\* floor(d/3600000) mod 24, floor(d/60000) mod 60, floor(d/1000) mod 60.
C14_SameAsSpecifiedFormulas ==
    (observed.called /\ observed.difference > 0) =>
        LET d == observed.difference
        IN timeLeft = [days |-> d \div 86400000,
                       hours |-> (d \div 3600000) % 24,
                       minutes |-> (d \div 60000) % 60,
                       seconds |-> (d \div 1000) % 60]

\* a difference that is no whole number of seconds, minutes or hours
C14_Witness ==
    /\ observed.called
    /\ observed.difference > 0
    /\ observed.difference % 1000 >= 500
    /\ observed.difference % 60000 >= 30000
    /\ observed.difference % 3600000 >= 1800000

\* C15: every section turns from hidden to visible at most once, never back,
\* and is visible from its first entry into view on.
C15_RevealedOnce ==
    \A s \in Sections :
        /\ reveals[s] <= 1
        /\ conceals[s] = 0
        /\ reveals[s] = (IF entered[s] >= 1 THEN 1 ELSE 0)
        /\ entered[s] >= 1 => Animate(inView[s]) = "visible"

\* a section and a card that entered the view twice and left it again
C15_Witness ==
    /\ entered["problem"] >= 2
    /\ ~intersecting["problem"]
    /\ entered["card"] >= 2

\* C16: a call of calculateTimeLeft that saw a difference <= 0 has left the
\* four fields as they were before it.
C16_PastLaunchLeavesFields ==
    (observed.called /\ observed.difference <= 0) => timeLeft = observed.before

\* the launch instant passed and the last positive difference still shows
C16_Witness ==
    /\ observed.called
    /\ observed.difference <= 0
    /\ timeLeft # ZeroTimeLeft

\* C17: every POST issued carries a non-empty name and a non-empty email.
C17_RequiredFieldsSent ==
    \A i \in 1..Len(posts) :
        /\ posts[i].body.name # ""
        /\ posts[i].body.email # ""

\* a POST was issued after the user had emptied and refilled a required field
C17_Witness ==
    /\ Len(posts) = 2
    /\ posts[2].body.restaurantName = ""
    /\ posts[1].body.restaurantName # ""

\* C18: subscribed starts false, and a step changes it only from false to
\* true and only when it handles a successful response.
C18_SubscribedOnlyOnSuccess ==
    /\ ~subscribed
    /\ [][subscribed' # subscribed =>
            (~subscribed /\ subscribed' /\ last'.ev = "success")]_vars
    /\ [][last'.ev = "failure" => subscribed' = subscribed]_vars

\* subscribed after an earlier submission had failed
C18_Witness ==
    /\ subscribed
    /\ last.ev = "success"
    /\ submits = 2

\* C19: a settled submission has exactly one toast, of the kind of its
\* outcome, and isSubmitting is false right after it settled; an outstanding
\* one has no toast, and isSubmitting turns false only in a step that settles
\* a request.
C19_OneToastPerSettledSubmission ==
    /\ [](\A id \in 1..submits :
            IF \E r \in requests : r.id = id
            THEN ToastsOf(id) = <<>> /\ isSubmitting
            ELSE Len(ToastsOf(id)) = 1)
    /\ [](last.ev = "success" =>
            (ToastsOf(last.req)[1].kind = "success" /\ ~isSubmitting))
    /\ [](last.ev = "failure" =>
            (ToastsOf(last.req)[1].kind = "error" /\ ~isSubmitting))
    /\ [][(isSubmitting /\ ~isSubmitting') => requests' # requests]_vars

\* a failed submission and then a successful one
C19_Witness ==
    /\ Len(toasts) = 2
    /\ toasts[1].kind = "error"
    /\ toasts[2].kind = "success"
    /\ ~isSubmitting
    /\ requests = {}

\* C20: at most one interval timer is alive, while mounted it is the one the
\* latest run of the effect created, and every call of calculateTimeLeft uses
\* the same target instant.
C20_OneTimer ==
    /\ Cardinality(timers) <= 1
    /\ mounted => timers = {cleanup}
    /\ observed.target = launchDate

\* the effect has run again since the mount
C20_Witness ==
    /\ mounted
    /\ timers = {2}
    /\ observed.called

====
